---- MODULE Spec2Model ----
(***************************************************************************)
(* ELLA voice assistant (src/src/main.py): the main loop, the listening    *)
(* session (audio callback -> queue.Queue -> KaldiRecognizer), the wake    *)
(* phrase dispatch and the ChatGPT query, as a state machine.              *)
(*                                                                         *)
(* Text is a sequence of one-character strings, so that str.strip,         *)
(* str.lstrip, str.lower and str.startswith are computed character by      *)
(* character as Python computes them.                                      *)
(***************************************************************************)
EXTENDS Integers, Sequences, FiniteSets, TLC

VARIABLES
    pc,             \* position of the main thread in main()
    raisedAt,       \* call site of the uncaught exception, "none" while running
    modelDirExists, \* os.path.isdir(model_dir)
    openaiAvailable,\* _OPENAI_AVAILABLE
    apiKey,         \* os.getenv('OPENAI_API_KEY'): "unset", "empty" or "set"
    session,        \* which call of listen_and_transcribe owns q and the recognizer; 0 before the first
    streamOpen,     \* the sd.RawInputStream context is entered
    q,              \* the queue.Queue of the current listening session
    pushed,         \* frames put by the callback in this session, in order
    fed,            \* frames handed to rec.AcceptWaveform in this session
    statusLog,      \* number of 'Audio input status' lines printed this session
    text,           \* value returned by listen_and_transcribe
    query,          \* main()'s local variable query
    answer,         \* main()'s local variable answer
    spoken,         \* texts passed to speak() since the last listening step
    calls,          \* prompts passed to query_chatgpt() since the last listening step
    requests,       \* openai.ChatCompletion.create calls since the last listening step
    console         \* lines printed since the last listening step

vars == <<pc, raisedAt, modelDirExists, openaiAvailable, apiKey, session, streamOpen, q,
          pushed, fed, statusLog, text, query, answer, spoken, calls, requests,
          console>>

(***************************************************************************)
(* Bounds of the model.                                                    *)
(***************************************************************************)
\* frames the audio callback delivers in one listening session
MaxFrames == 3
\* identities that tell successive calls of listen_and_transcribe apart
SessionIds == 2
\* length of the run of punctuation and blanks between wake phrase and query
MaxSep == 4

(***************************************************************************)
(* Characters and string functions.                                        *)
(***************************************************************************)
\* str.strip() without argument removes whitespace
Whitespace == {" ", "\t", "\n"}

\* the argument of lstrip in main(): ',.:;!'
Punctuation == {",", ".", ":", ";", "!"}

\* 'ella'
WakePhrase == <<"e", "l", "l", "a">>

\* str.lower on one character (the upper-case letters the model uses)
LowerChar(c) ==
    CASE c = "E" -> "e"
      [] c = "L" -> "l"
      [] c = "A" -> "a"
      [] c = "H" -> "h"
      [] OTHER -> c

\* str.lower
Lower(s) == [i \in DOMAIN s |-> LowerChar(s[i])]

RECURSIVE LStripSet(_, _)
\* str.lstrip(chars): drop the longest prefix made of characters of chars
LStripSet(s, chars) ==
    IF s # <<>> /\ Head(s) \in chars THEN LStripSet(Tail(s), chars) ELSE s

RECURSIVE RStripSet(_, _)
\* str.rstrip(chars): drop the longest suffix made of characters of chars
RStripSet(s, chars) ==
    IF s # <<>> /\ s[Len(s)] \in chars
    THEN RStripSet(SubSeq(s, 1, Len(s) - 1), chars)
    ELSE s

\* str.strip()
Strip(s) == RStripSet(LStripSet(s, Whitespace), Whitespace)

\* a prefix test that compares the lengths only
StartsWithLengthOnly(s, p) == Len(s) >= Len(p)

\* str.startswith
StartsWith(s, p) == Len(s) >= Len(p) /\ SubSeq(s, 1, Len(p)) = p

\* text[len('ella'):]
AfterWake(t) == SubSeq(t, Len(WakePhrase) + 1, Len(t))

\* main(): query = text[len('ella'):].strip().lstrip(',.:;!')
ExtractQuery(t) == LStripSet(Strip(AfterWake(t)), Punctuation)

(***************************************************************************)
(* Texts handed to speak() and returned by query_chatgpt(): a fixed        *)
(* literal of the program, a string computed from the reply, or an error   *)
(* message built from an exception.                                        *)
(***************************************************************************)
Lit(s) == [lit |-> s]

\* the greeting of main()
Greeting == Lit("Hello, I am ELLA. Say the activation word followed by your question and I will respond.")

\* speak('Yes?', tts_engine)
AckPhrase == Lit("Yes?")

\* speak('Thinking...', tts_engine)
ThinkingPhrase == Lit("Thinking...")

\* query_chatgpt: the client library could not be imported
NotAvailableMsg == Lit("The ChatGPT API is not available in this environment.")

\* query_chatgpt: os.getenv('OPENAI_API_KEY') is None or empty
NoKeyMsg == Lit("No OpenAI API key found. Please set the OPENAI_API_KEY environment variable.")

\* query_chatgpt: f'Error contacting ChatGPT: {exc}'
ErrorMsg(exc) == [error |-> "Error contacting ChatGPT: ", exc |-> exc]

\* query_chatgpt: the reply has not the expected shape
UnexpectedMsg == Lit("I received an unexpected response from ChatGPT.")

\* the value of a local variable that has not been assigned
Unassigned == [unassigned |-> TRUE]

(***************************************************************************)
(* query_chatgpt.  A call either returns a value or raises; every step is  *)
(* an outcome record [raised, value, requests].                            *)
(***************************************************************************)
Return(v, n) == [raised |-> FALSE, value |-> v, requests |-> n]

Raise(e, n) == [raised |-> TRUE, value |-> [exc |-> e], requests |-> n]

\* exceptions openai.ChatCompletion.create can raise
RemoteErrors == {"Timeout", "APIError"}

\* a well-formed reply whose content has surrounding blanks
GoodReply == [choices |-> << [message |-> [content |-> [chars |-> <<" ", "o", "k", "\n">>]]] >>]

\* replies a remote service can send
Replies ==
    { GoodReply,
      [choices |-> <<>>],
      [error |-> "rate limit"],
      [choices |-> << [finish_reason |-> "stop"] >>],
      [choices |-> << [message |-> [content |-> [none |-> TRUE]]] >> ] }

\* openai.ChatCompletion.create(...): one request, which raises or replies
ChatCompletionCreate(remote, reply) ==
    IF remote \in RemoteErrors THEN Raise(remote, 1) ELSE Return(reply, 1)

\* response['choices'][0]['message']['content'].strip()
ExtractContent(response) ==
    IF "choices" \notin DOMAIN response THEN Raise("KeyError", 1)
    ELSE IF Len(response.choices) = 0 THEN Raise("IndexError", 1)
    ELSE IF "message" \notin DOMAIN response.choices[1] THEN Raise("KeyError", 1)
    ELSE IF "content" \notin DOMAIN response.choices[1].message THEN Raise("KeyError", 1)
    ELSE IF "chars" \notin DOMAIN response.choices[1].message.content
         THEN Raise("AttributeError", 1)
    ELSE Return([chars |-> Strip(response.choices[1].message.content.chars)], 1)

\* a handler missing: the exception of the try body propagates
ExceptUnexpectedMissing(r) == r

\* try: return ...strip()  except Exception: return 'I received an unexpected ...'
ExceptUnexpected(r) ==
    IF r.raised THEN Return(UnexpectedMsg, r.requests) ELSE r

\* try: response = create(...)  except Exception as exc: return f'Error ...{exc}'
ExceptContacting(r) ==
    IF r.raised THEN Return(ErrorMsg(r.value.exc), r.requests) ELSE r

\* `not api_key`: None and '' are both falsy
KeyMissing(key) == key \in {"unset", "empty"}

\* the credential check skipped: the request is made without a key
QueryChatgptNoKeyCheck(prompt, available, key, remote, reply) ==
    IF ~available THEN Return(NotAvailableMsg, 0)
    ELSE LET c == ChatCompletionCreate(remote, reply)
         IN  IF c.raised
             THEN ExceptContacting(c)
             ELSE ExceptUnexpected(ExtractContent(c.value))

\* query_chatgpt(prompt)
QueryChatgpt(prompt, available, key, remote, reply) ==
    IF ~available THEN Return(NotAvailableMsg, 0)
    ELSE IF KeyMissing(key) THEN Return(NoKeyMsg, 0)
    ELSE LET c == ChatCompletionCreate(remote, reply)
         IN  IF c.raised
             THEN ExceptContacting(c)
             ELSE ExceptUnexpected(ExtractContent(c.value))

(***************************************************************************)
(* What the recognizer can hear: rec.Result()'s 'text' before it is        *)
(* stripped and lower-cased.                                               *)
(***************************************************************************)
\* characters between the first word and the rest of an utterance
SepChars == {" ", ","}

\* sequences over S of length at most n
SeqUpTo(S, n) == UNION { [1..k -> S] : k \in 0..n }

\* 'tell me a joke'
TellMeAJoke == <<"t", "e", "l", "l", " ", "m", "e", " ", "a", " ", "j", "o", "k", "e">>

\* first words of an utterance: the wake phrase, capitalised or not, and others
FirstWords == { WakePhrase, <<"E", "l", "l", "a">>, <<"h", "e", "l", "l", "o">> }

\* what follows the separator
Rests == { <<>>, <<"h", "i">>, TellMeAJoke }

\* the texts a Final result can carry
RawTexts ==
    { lead \o first \o sep \o rest \o trail :
        lead \in {<<>>, <<" ">>}, first \in FirstWords,
        sep \in SeqUpTo(SepChars, MaxSep), rest \in Rests,
        trail \in {<<>>, <<" ">>} }
    \cup {<<>>, <<" ">>}

(***************************************************************************)
(* The state machine.                                                      *)
(***************************************************************************)
Init ==
    /\ pc = "Start"
    /\ raisedAt = "none"
    /\ modelDirExists \in BOOLEAN
    /\ openaiAvailable \in BOOLEAN
    /\ apiKey \in {"unset", "empty", "set"}
    /\ session = 0
    /\ streamOpen = FALSE
    /\ q = <<>>
    /\ pushed = <<>>
    /\ fed = <<>>
    /\ statusLog = 0
    /\ text = <<>>
    /\ query = <<>>
    /\ answer = Unassigned
    /\ spoken = <<>>
    /\ calls = <<>>
    /\ requests = 0
    /\ console = <<>>

\* what the environment never changes while the process runs
Env == <<modelDirExists, openaiAvailable, apiKey>>

\* the listening session
Session == <<session, streamOpen, q, pushed, fed, statusLog>>

\* load_vosk_model: os.path.isdir(model_dir)
LoadVoskModel(exists) ==
    IF exists THEN Return("model", 0) ELSE Raise("FileNotFoundError", 0)

\* the exit status of the process once main() is left at position p: an
\* uncaught exception ends the interpreter with 1, a return from main() is
\* followed by the end of the script, status 0
ExitStatus(p) == IF p = "Crashed" THEN 1 ELSE 0

\* an except block that prints and then goes on instead of returning
LoadModelNoReturn ==
    /\ pc = "Start"
    /\ pc' = "Greet"
    /\ IF LoadVoskModel(modelDirExists).raised
       THEN console' = console \o << [line |-> "Vosk model directory not found", stream |-> "stderr"],
                                     [line |-> "Please download a Vosk model"] >>
       ELSE console' = console
    /\ UNCHANGED <<raisedAt, Env, Session, text, query, answer, spoken, calls, requests>>

\* main(): model = load_vosk_model(model_dir), with its except FileNotFoundError
LoadModel ==
    /\ pc = "Start"
    /\ IF LoadVoskModel(modelDirExists).raised
       THEN /\ pc' = "Exited"
            /\ console' = console \o << [line |-> "Vosk model directory not found", stream |-> "stderr"],
                                        [line |-> "Please download a Vosk model"] >>
       ELSE /\ pc' = "Greet"
            /\ console' = console
    /\ UNCHANGED <<raisedAt, Env, Session, text, query, answer, spoken, calls, requests>>

\* speak(t, tts_engine) called at `site`: say and runAndWait return, or one
\* of them raises and nothing in main() catches it
Speak(site, t, ok, next) ==
    /\ spoken' = Append(spoken, t)
    /\ IF ok
       THEN pc' = next /\ raisedAt' = raisedAt
       ELSE pc' = "Crashed" /\ raisedAt' = site

\* main(): tts_engine = pyttsx3.init(); speak('Hello, I am ELLA...', tts_engine)
Greet ==
    /\ pc = "Greet"
    /\ \E ok \in BOOLEAN : Speak("greeting", Greeting, ok, "Idle")
    /\ UNCHANGED <<Env, Session, text, query, answer, calls, requests, console>>

\* a queue created once and shared by all the calls of listen_and_transcribe
ListenBeginSharedQueue ==
    /\ pc = "Idle"
    /\ pc' = "Listening"
    /\ console' = << [line |-> "Listening..."] >>
    /\ session' = (session % SessionIds) + 1
    /\ pushed' = <<>>
    /\ fed' = <<>>
    /\ statusLog' = 0
    /\ streamOpen' = TRUE
    /\ text' = <<>>
    /\ query' = <<>>
    /\ answer' = Unassigned
    /\ spoken' = <<>>
    /\ calls' = <<>>
    /\ requests' = 0
    /\ UNCHANGED <<raisedAt, Env, q>>

\* main(): print('Listening...'); listen_and_transcribe up to the open stream:
\* a new queue, a new recognizer, the input stream entered.  The logs of the
\* previous turn are cleared here.
ListenBegin ==
    /\ pc = "Idle"
    /\ pc' = "Listening"
    /\ console' = << [line |-> "Listening..."] >>
    /\ session' = (session % SessionIds) + 1
    /\ q' = <<>>
    /\ pushed' = <<>>
    /\ fed' = <<>>
    /\ statusLog' = 0
    /\ streamOpen' = TRUE
    /\ text' = <<>>
    /\ query' = <<>>
    /\ answer' = Unassigned
    /\ spoken' = <<>>
    /\ calls' = <<>>
    /\ requests' = 0
    /\ UNCHANGED <<raisedAt, Env>>

\* q.put(item) on an unbounded queue.Queue: append at the tail
QueuePut(queue, item) == Append(queue, item)

\* bytes(indata): the n-th frame captured by the stream of session s
Frame(s, n) == <<s, n>>

\* a callback that puts into a queue of capacity one and waits while it is full
CallbackBoundedQueue ==
    /\ streamOpen
    /\ Len(pushed) < MaxFrames
    /\ Len(q) < 1
    /\ \E status \in BOOLEAN :
         statusLog' = IF status THEN statusLog + 1 ELSE statusLog
    /\ q' = Append(q, <<session, Len(pushed) + 1>>)
    /\ pushed' = Append(pushed, <<session, Len(pushed) + 1>>)
    /\ UNCHANGED <<pc, raisedAt, Env, session, streamOpen, fed, text, query, answer,
                   spoken, calls, requests, console>>

\* listen_and_transcribe.callback, on the audio driver's thread: frame number
\* Len(pushed) + 1 of the session is captured
Callback ==
    /\ streamOpen
    /\ Len(pushed) < MaxFrames
    /\ \E status \in BOOLEAN :
         statusLog' = IF status THEN statusLog + 1 ELSE statusLog
    /\ q' = QueuePut(q, Frame(session, Len(pushed) + 1))
    /\ pushed' = Append(pushed, Frame(session, Len(pushed) + 1))
    /\ UNCHANGED <<pc, raisedAt, Env, session, streamOpen, fed, text, query, answer,
                   spoken, calls, requests, console>>

\* a get that takes the newest item instead of the oldest
QueueGetNewest(queue) == queue[Len(queue)]

\* q.get(): the item at the head (blocks while the queue is empty)
QueueGet(queue) == Head(queue)

\* the queue after q.get()
QueueRest(queue) == Tail(queue)

\* the text of the result taken as it comes
ResultTextUnstripped(raw) == raw

\* listen_and_transcribe: result_dict.get('text', '').strip()
ResultText(raw) == Strip(raw)

\* a stream that stays open when the block is left
StreamLeftOpen(open) == open

\* leaving the `with sd.RawInputStream(...)` block, by return or by exception
StreamExit(open) == FALSE

\* a stream closed by an explicit call before `return` only: an exception
\* leaves it open
DecodeCloseOnReturnOnly ==
    /\ pc = "Listening"
    /\ q # <<>>
    /\ q' = Tail(q)
    /\ fed' = Append(fed, Head(q))
    /\ \E raises \in BOOLEAN, accept \in BOOLEAN, raw \in RawTexts :
         IF raises
         THEN /\ streamOpen' = streamOpen
              /\ pc' = "Crashed"
              /\ raisedAt' = "listen"
              /\ text' = text
         ELSE IF accept /\ Strip(raw) # <<>>
         THEN /\ text' = Lower(Strip(raw))
              /\ streamOpen' = FALSE
              /\ pc' = "Dispatch"
              /\ raisedAt' = raisedAt
         ELSE UNCHANGED <<text, streamOpen, pc, raisedAt>>
    /\ UNCHANGED <<Env, session, pushed, statusLog, query, answer, spoken,
                   calls, requests, console>>

\* listen_and_transcribe: one iteration of the while loop.  Whether the
\* recognizer finds an end point (accept) and what it heard (raw) is decided
\* by the engine; AcceptWaveform, Result or json.loads may also raise, and
\* nothing in listen_and_transcribe or main() catches that.
Decode ==
    /\ pc = "Listening"
    /\ q # <<>>
    /\ q' = QueueRest(q)
    /\ fed' = Append(fed, QueueGet(q))
    /\ \E raises \in BOOLEAN, accept \in BOOLEAN, raw \in RawTexts :
         IF raises
         THEN /\ streamOpen' = StreamExit(streamOpen)
              /\ pc' = "Crashed"
              /\ raisedAt' = "listen"
              /\ text' = text
         ELSE IF accept /\ ResultText(raw) # <<>>
         THEN /\ text' = Lower(ResultText(raw))
              /\ streamOpen' = StreamExit(streamOpen)
              /\ pc' = "Dispatch"
              /\ raisedAt' = raisedAt
         ELSE UNCHANGED <<text, streamOpen, pc, raisedAt>>
    /\ UNCHANGED <<Env, session, pushed, statusLog, query, answer, spoken,
                   calls, requests, console>>

\* a dispatch without the test `if not query`
DispatchNoEmptyCheck ==
    /\ pc = "Dispatch"
    /\ IF text = <<>> \/ ~StartsWith(text, WakePhrase)
       THEN /\ pc' = "Idle"
            /\ UNCHANGED <<query, console>>
       ELSE /\ query' = ExtractQuery(text)
            /\ pc' = "Thinking"
            /\ console' = Append(console, [line |-> "User: ", arg |-> query'])
    /\ UNCHANGED <<raisedAt, Env, Session, text, answer, spoken, calls, requests>>

\* main(): the tests on text, the extraction of the query, print(f'User: ...')
Dispatch ==
    /\ pc = "Dispatch"
    /\ IF text = <<>> \/ ~StartsWith(text, WakePhrase)
       THEN /\ pc' = "Idle"
            /\ UNCHANGED <<query, console>>
       ELSE /\ query' = ExtractQuery(text)
            /\ IF query' = <<>>
               THEN pc' = "Ack" /\ console' = console
               ELSE /\ pc' = "Thinking"
                    /\ console' = Append(console, [line |-> "User: ", arg |-> query'])
    /\ UNCHANGED <<raisedAt, Env, Session, text, answer, spoken, calls, requests>>

\* main(): speak('Yes?', tts_engine); continue
Ack ==
    /\ pc = "Ack"
    /\ \E ok \in BOOLEAN : Speak("ack", AckPhrase, ok, "Idle")
    /\ UNCHANGED <<Env, Session, text, query, answer, calls, requests, console>>

\* main(): speak('Thinking...', tts_engine)
Thinking ==
    /\ pc = "Thinking"
    /\ \E ok \in BOOLEAN : Speak("thinking", ThinkingPhrase, ok, "Await")
    /\ UNCHANGED <<Env, Session, text, query, answer, calls, requests, console>>

\* main(): answer = query_chatgpt(query); print(f'ELLA: {answer}')
Await ==
    /\ pc = "Await"
    /\ calls' = Append(calls, query)
    /\ \E remote \in RemoteErrors \cup {"ok"}, reply \in Replies :
         LET r == QueryChatgpt(query, openaiAvailable, apiKey, remote, reply)
         IN  /\ requests' = requests + r.requests
             /\ IF r.raised
                THEN /\ pc' = "Crashed"
                     /\ raisedAt' = "query_chatgpt"
                     /\ UNCHANGED <<answer, console>>
                ELSE /\ pc' = "SpeakAnswer"
                     /\ raisedAt' = raisedAt
                     /\ answer' = r.value
                     /\ console' = Append(console, [line |-> "ELLA: ", arg |-> r.value])
    /\ UNCHANGED <<Env, Session, text, query, spoken>>

\* a loop that is left after the answer has been spoken
SpeakAnswerThenStop ==
    /\ pc = "SpeakAnswer"
    /\ spoken' = Append(spoken, answer)
    /\ pc' = "Exited"
    /\ UNCHANGED <<raisedAt, Env, Session, text, query, answer, calls, requests, console>>

\* main(): speak(answer, tts_engine), then the next iteration
SpeakAnswer ==
    /\ pc = "SpeakAnswer"
    /\ \E ok \in BOOLEAN : Speak("answer", answer, ok, "Idle")
    /\ UNCHANGED <<Env, Session, text, query, answer, calls, requests, console>>

Next ==
    \/ LoadModel
    \/ Greet
    \/ ListenBegin
    \/ Callback
    \/ Decode
    \/ Dispatch
    \/ Ack
    \/ Thinking
    \/ Await
    \/ SpeakAnswer

Spec == Init /\ [][Next]_vars

\* the steps of the main thread between the return of listen_and_transcribe
\* and the next iteration of `while True`
TurnStep == Dispatch \/ Ack \/ Thinking \/ Await \/ SpeakAnswer

\* the steps in which every call of speak, query_chatgpt and the recognizer
\* returns
ReturningNext ==
    \/ LoadModel
    \/ Greet /\ pc' # "Crashed"
    \/ ListenBegin
    \/ Callback
    \/ Decode /\ pc' # "Crashed"
    \/ Dispatch
    \/ Ack /\ pc' # "Crashed"
    \/ Thinking /\ pc' # "Crashed"
    \/ Await /\ pc' # "Crashed"
    \/ SpeakAnswer /\ pc' # "Crashed"

\* the program when every collaborator call returns; the main thread, once
\* it can take a step of the turn, takes it
LiveSpec == Init /\ [][ReturningNext]_vars /\ WF_vars(TurnStep)

TypeOK ==
    /\ pc \in {"Start", "Exited", "Greet", "Idle", "Listening", "Dispatch", "Ack",
               "Thinking", "Await", "SpeakAnswer", "Crashed"}
    /\ raisedAt \in {"none", "greeting", "listen", "ack", "thinking", "answer", "query_chatgpt"}
    /\ session \in 0..SessionIds
    /\ streamOpen \in BOOLEAN
    /\ requests \in 0..1
    /\ Len(q) <= MaxFrames

(***************************************************************************)
(* Vocabulary of the properties, stated independently of the operators     *)
(* that model the code.                                                    *)
(***************************************************************************)
\* the utterance t begins with the four characters e, l, l, a
HasWakePrefix(t) ==
    /\ Len(t) >= 4
    /\ t[1] = "e" /\ t[2] = "l" /\ t[3] = "l" /\ t[4] = "a"

\* a finalized utterance has been received and not yet replaced by a new
\* listening step
Received == text # <<>>

\* non-empty runs of the punctuation the model's utterances use
PunctRuns == SeqUpTo(Punctuation \cap SepChars, MaxSep) \ {<<>>}

\* non-empty runs of the whitespace the model's utterances use
BlankRuns == SeqUpTo(Whitespace \cap SepChars, MaxSep) \ {<<>>}

\* the non-empty queries of the model's utterances
Queries == Rests \ {<<>>}

\* 'ella, , tell me a joke'
ScenarioThree == WakePhrase \o <<",", " ", ",", " ">> \o TellMeAJoke

\* s is a prefix of t
IsPrefix(s, t) == Len(s) <= Len(t) /\ SubSeq(t, 1, Len(s)) = s

(***************************************************************************)
(* C1: for every finalized utterance 'ella' + punctuation + whitespace + Q *)
(* (Q non-empty, no leading punctuation) the query the main loop extracts  *)
(* and passes to query_chatgpt is exactly Q.                               *)
(***************************************************************************)
C1_ExtractsExactlyQ ==
    \A p \in PunctRuns, w \in BlankRuns, Q \in Queries :
        text = WakePhrase \o p \o w \o Q =>
            /\ pc \in {"Thinking", "Await", "SpeakAnswer"} => query = Q
            /\ \A i \in DOMAIN calls : calls[i] = Q

(***************************************************************************)
(* C2: for the utterance 'ella, , tell me a joke' the extracted query is   *)
(* exactly 'tell me a joke'.                                               *)
(***************************************************************************)
C2_ScenarioThreeQuery ==
    (text = ScenarioThree /\ pc \notin {"Listening", "Dispatch"}) => query = TellMeAJoke

(***************************************************************************)
(* C3: for every finalized utterance that does not start with 'ella',      *)
(* between receiving it and the next listening step speak is not invoked,  *)
(* query_chatgpt is not invoked, and the loop goes back to Idle.           *)
(***************************************************************************)
C3_NoCommandWithoutWake ==
    (Received /\ ~HasWakePrefix(text)) =>
        /\ spoken = <<>>
        /\ calls = <<>>
        /\ requests = 0
        /\ pc \in {"Dispatch", "Idle"}

\* an utterance without the wake phrase has been dropped and the loop is Idle
C3_Witness == Received /\ ~HasWakePrefix(text) /\ pc = "Idle"

(***************************************************************************)
(* C4: for every finalized utterance whose remainder after the wake phrase *)
(* is empty once trimmed and stripped of leading punctuation, speak is     *)
(* invoked exactly once, with the acknowledgment, query_chatgpt is never   *)
(* called and the loop returns to Idle.                                    *)
(***************************************************************************)
C4_BareActivation ==
    (Received /\ HasWakePrefix(text) /\ ExtractQuery(text) = <<>>) =>
        /\ calls = <<>>
        /\ requests = 0
        /\ pc \in {"Dispatch", "Ack", "Idle"}
        /\ pc = "Idle" => spoken = <<AckPhrase>>
        /\ pc \in {"Dispatch", "Ack"} => spoken = <<>>

(***************************************************************************)
(* C5: on a finalized utterance with the wake phrase and a non-empty query *)
(* the loop goes Dispatching -> Awaiting Response -> Speaking(answer) ->   *)
(* Idle: query_chatgpt is called exactly once with the extracted query,    *)
(* nothing is spoken before that call, and what is spoken after it is the  *)
(* returned answer.                                                        *)
(***************************************************************************)
C5_QueryTurn ==
    (Received /\ HasWakePrefix(text) /\ ExtractQuery(text) # <<>>) =>
        /\ pc \in {"Dispatch", "Thinking", "Await", "SpeakAnswer", "Idle"}
        /\ pc \in {"Dispatch", "Thinking", "Await"} => spoken = <<>> /\ calls = <<>>
        /\ pc = "SpeakAnswer" => spoken = <<>> /\ calls = <<query>>
        /\ pc = "Idle" => spoken = <<answer>> /\ calls = <<query>>

(***************************************************************************)
(* C6: under any interleaving of the audio callback and the decoding loop  *)
(* within a listening session, the frames popped and fed to the recognizer *)
(* are at every moment a prefix of the frames pushed: same order, none     *)
(* duplicated, none skipped.                                               *)
(***************************************************************************)
C6_FedIsPrefixOfPushed == IsPrefix(fed, pushed)

\* the consumer has fed two frames while a third one is still in the queue
C6_Witness == pc = "Listening" /\ Len(fed) >= 2 /\ Len(q) >= 1

(***************************************************************************)
(* C7: no captured frame is lost: every frame pushed by the callback is    *)
(* popped and fed to the recognizer, also those pushed after the frame     *)
(* that made the recognizer emit a Final result.  As a final result: once  *)
(* the session is over (stream closed) every pushed frame has been fed.    *)
(***************************************************************************)
C7_NoFrameLost == ~streamOpen => fed = pushed

(***************************************************************************)
(* C8: query_chatgpt never raises: whatever the query, the availability of *)
(* the client library, the credential, the outcome of the remote call and  *)
(* the shape of the reply, it returns a string.                            *)
(***************************************************************************)
C8_QueryChatgptNeverRaises ==
    /\ raisedAt # "query_chatgpt"
    /\ calls # <<>> =>
         /\ pc \in {"SpeakAnswer", "Idle", "Crashed"}
         /\ \/ answer \in {NotAvailableMsg, NoKeyMsg, UnexpectedMsg}
            \/ answer \in {ErrorMsg(e) : e \in RemoteErrors}
            \/ DOMAIN answer = {"chars"}

\* a malformed reply has been turned into the fallback answer
C8_Witness == pc = "SpeakAnswer" /\ requests = 1 /\ answer = UnexpectedMsg

(***************************************************************************)
(* C9: no failure of speak or query_chatgpt during a turn terminates the   *)
(* loop.                                                                   *)
(***************************************************************************)
C9_LoopSurvivesCollaborators ==
    ~(pc = "Crashed" /\ raisedAt \in {"ack", "thinking", "answer", "query_chatgpt"})

(***************************************************************************)
(* C10 as stated: when OPENAI_API_KEY is absent, query_chatgpt returns for *)
(* every query the fallback naming the missing credential, makes no remote *)
(* request, and that string is what the loop speaks.                       *)
(***************************************************************************)
C10_AbsentKeyAlwaysNamesKey ==
    apiKey = "unset" =>
        /\ requests = 0
        /\ answer # Unassigned => answer = NoKeyMsg
        /\ Len(spoken) >= 2 => spoken[2] = NoKeyMsg

(***************************************************************************)
(* C10 amended: when OPENAI_API_KEY is absent and the client library was   *)
(* imported, query_chatgpt returns for every query the fallback naming the *)
(* missing credential, makes no remote request, and the loop then invokes  *)
(* speak with exactly that string.                                         *)
(***************************************************************************)
C10_AbsentKeyFallback ==
    (apiKey = "unset" /\ openaiAvailable) =>
        /\ requests = 0
        /\ answer # Unassigned => answer = NoKeyMsg
        /\ Len(spoken) >= 2 => spoken[2] = NoKeyMsg

\* without a key and with the library, the fallback has been spoken
C10_Witness ==
    /\ apiKey = "unset" /\ openaiAvailable
    /\ spoken = <<ThinkingPhrase, NoKeyMsg>>
    /\ calls = <<query>>

(***************************************************************************)
(* C11: when the model directory is missing at startup, the process        *)
(* terminates with a non-zero exit status after printing the diagnostic.   *)
(***************************************************************************)
C11_MissingModelExitsNonZero ==
    (~modelDirExists /\ pc \in {"Exited", "Crashed"}) =>
        /\ ExitStatus(pc) # 0
        /\ \E i \in DOMAIN console : console[i].line = "Vosk model directory not found"

(***************************************************************************)
(* C12: when the model directory is missing at startup, the process never  *)
(* enters the capture loop, never opens the audio stream, never constructs *)
(* a recognizer and never invokes speak or query_chatgpt before exiting.   *)
(***************************************************************************)
C12_MissingModelFailsFast ==
    ~modelDirExists =>
        /\ pc \in {"Start", "Exited"}
        /\ session = 0
        /\ ~streamOpen
        /\ pushed = <<>> /\ fed = <<>>
        /\ spoken = <<>>
        /\ calls = <<>> /\ requests = 0

\* without the model directory the process has exited
C12_Witness == ~modelDirExists /\ pc = "Exited"

(***************************************************************************)
(* C13: turn-taking.  While speak or query_chatgpt is in progress (the     *)
(* main thread is at one of these calls, so at most one of them) the loop  *)
(* is not listening: the audio stream is closed, the callback cannot push  *)
(* a frame, and no frame can be fed to a recognizer.                       *)
(***************************************************************************)
InCollaboratorCall == pc \in {"Greet", "Ack", "Thinking", "Await", "SpeakAnswer"}

C13_TurnTaking ==
    InCollaboratorCall =>
        /\ ~streamOpen
        /\ ~ENABLED Callback
        /\ ~ENABLED Decode

\* query_chatgpt is about to run while frames of the session are left over
C13_Witness == pc = "Await" /\ q # <<>>

(***************************************************************************)
(* C14: a Final result whose normalized text is empty is not an utterance: *)
(* listen_and_transcribe returns only non-empty, trimmed, lower-case text, *)
(* and only such a returned text reaches the wake check.                   *)
(***************************************************************************)
UpperCase == {"A", "E", "H", "L"}

C14_ReturnedTextNormalized ==
    pc = "Dispatch" =>
        /\ text # <<>>
        /\ text[1] \notin Whitespace
        /\ text[Len(text)] \notin Whitespace
        /\ \A i \in DOMAIN text : text[i] \notin UpperCase

\* the session went past a first frame and then returned the wake phrase
C14_Witness == pc = "Dispatch" /\ Len(fed) >= 2 /\ text = <<"e", "l", "l", "a">>

(***************************************************************************)
(* C15: after a successful startup the loop has no terminal state: when    *)
(* every collaborator call returns, from every Dispatching, Awaiting       *)
(* Response or Speaking state the loop eventually returns to Idle, and it  *)
(* never leaves main().                                                    *)
(***************************************************************************)
InTurn == pc \in {"Dispatch", "Ack", "Thinking", "Await", "SpeakAnswer"}

C15_LoopReturnsToIdle ==
    /\ InTurn ~> (pc = "Idle")
    /\ [](modelDirExists => pc \notin {"Exited", "Crashed"})

\* a turn with a query has been completed and the loop is Idle again
C15_Witness == pc = "Idle" /\ Len(spoken) = 2 /\ spoken[2] = answer

(***************************************************************************)
(* C16: for every finalized utterance that triggers a query, the query and *)
(* the answer are both echoed on the console whatever the outcome of       *)
(* speech output: the query line before query_chatgpt is called, the       *)
(* answer line after it returns and before the answer is spoken.           *)
(***************************************************************************)
UserLine == [line |-> "User: ", arg |-> query]

AnswerLine == [line |-> "ELLA: ", arg |-> answer]

Echoed(l) == \E i \in DOMAIN console : console[i] = l

C16_TranscriptEchoed ==
    (Received /\ HasWakePrefix(text) /\ ExtractQuery(text) # <<>> /\ pc # "Dispatch") =>
        /\ Echoed(UserLine)
        /\ Len(spoken) >= 2 => Echoed(AnswerLine)
        /\ pc \in {"Idle", "Crashed"} => Echoed(UserLine) /\ Echoed(AnswerLine)

(***************************************************************************)
(* C17: the audio input stream is held only while listen_and_transcribe is *)
(* executing and is released on every exit path from it, the return with   *)
(* an utterance as well as an exception raised in the decoding loop.       *)
(***************************************************************************)
C17_StreamScoped == streamOpen <=> pc = "Listening"

\* an exception in the decoding loop has ended the process, stream released
C17_Witness == pc = "Crashed" /\ raisedAt = "listen" /\ ~streamOpen /\ pushed # <<>>

(***************************************************************************)
(* C18: push never blocks the audio callback: while the stream is open the *)
(* producer step is enabled whatever the queue length, the consumer's      *)
(* position and the driver status; pop blocks the consumer exactly when    *)
(* the queue is empty, and every frame fed was pushed.                     *)
(***************************************************************************)
C18_PushNeverBlocks ==
    /\ (streamOpen /\ Len(pushed) < MaxFrames) => ENABLED Callback
    /\ pc = "Listening" => (ENABLED Decode <=> q # <<>>)
    /\ \A i \in DOMAIN fed : \E j \in DOMAIN pushed : pushed[j] = fed[i]

\* two frames wait in the queue, a status was reported, the callback can push
C18_Witness ==
    /\ streamOpen /\ Len(q) >= 2 /\ statusLog >= 1
    /\ Len(pushed) < MaxFrames /\ ENABLED Callback

(***************************************************************************)
(* C19: listening sessions are isolated: every call of                     *)
(* listen_and_transcribe starts with an empty queue and a recognizer that  *)
(* was fed nothing, and every frame in the queue or fed to the recognizer  *)
(* was captured in the current session.                                    *)
(***************************************************************************)
C19_SessionsIsolated ==
    /\ \A i \in DOMAIN q : q[i][1] = session
    /\ \A i \in DOMAIN fed : fed[i][1] = session
    /\ (pc = "Listening" /\ pushed = <<>>) => (q = <<>> /\ fed = <<>>)

\* a second session feeds its own first frame
C19_Witness == session = 2 /\ pc = "Listening" /\ fed = << <<2, 1>> >>

(***************************************************************************)
(* C20: every query passed to query_chatgpt is non-empty and has at least  *)
(* one character that is not whitespace.                                   *)
(***************************************************************************)
C20_QueriesNotBlank ==
    \A i \in DOMAIN calls :
        /\ calls[i] # <<>>
        /\ \E j \in DOMAIN calls[i] : calls[i][j] \notin Whitespace

\* a query that begins with a blank has been passed to query_chatgpt
C20_Witness == calls # <<>> /\ Len(calls[1]) >= 2 /\ calls[1][1] = " "

====
